---- MODULE Spec2Model ----
(***************************************************************************)
(* clib/download.h of luakit: the WebKitDownload wrapper header.           *)
(*                                                                         *)
(* Two state machines are modelled.                                        *)
(*                                                                         *)
(*  Spec    the C preprocessor/compiler front end reading the header in a  *)
(*          translation unit that includes it up to MaxIncludes times:     *)
(*          the macro table, the position in the header, the conditional   *)
(*          group being skipped and the declarations the header has        *)
(*          contributed so far.  Translated from download.h lines 22-31.   *)
(*                                                                         *)
(*  SpecRT  the two declared entry points called on a scripting runtime.   *)
(*          Their signatures are those of download.h lines 28-29; their    *)
(*          bodies live in clib/download.c, which is not part of the       *)
(*          sources at hand, and are modelled from the specification.      *)
(***************************************************************************)
EXTENDS Integers, Sequences, FiniteSets

\* ------------------------------------------------------------------ bounds

\* How many times the translation unit may include the header.
MaxIncludes == 4

\* Deepest evaluation stack of a runtime state.
MaxStack == 2

\* ---------------------------------------------------------- the header text

\* download.h:22-23, the include guard's macro.
GuardMacro == "LUAKIT_CLIB_DOWNLOAD_H"

\* Macros of the including translation unit; none is the header's guard.
OtherMacros == {"LUAKIT_CLIB_WIDGET_H", "LUAKIT_LUAH_H"}

NoDecl == [name |-> "", form |-> "none", ret |-> "", params |-> <<>>]

\* The setup routine declared as returning a count, like its sibling.
download_class_setup_decl_gint ==
    [name |-> "download_class_setup", form |-> "prototype",
     ret |-> "gint", params |-> <<"lua_State*">>]

\* The push routine declared as returning nothing, like its sibling.
luaH_download_push_decl_void ==
    [name |-> "luaH_download_push", form |-> "prototype",
     ret |-> "void", params |-> <<"lua_State*", "WebKitDownload*">>]

\* download.h:28   void download_class_setup(lua_State*);
download_class_setup_decl ==
    [name |-> "download_class_setup", form |-> "prototype",
     ret |-> "void", params |-> <<"lua_State*">>]

\* download.h:29   gint luaH_download_push(lua_State*, WebKitDownload*);
luaH_download_push_decl ==
    [name |-> "luaH_download_push", form |-> "prototype",
     ret |-> "gint", params |-> <<"lua_State*", "WebKitDownload*">>]

Directive(l, d, m, f, x) ==
    [line |-> l, dir |-> d, macro |-> m, file |-> f, decl |-> x]

\* The guard's #define left out: every inclusion reads the whole header again.
HeaderNoDefine ==
    << Directive(22, "ifndef",  GuardMacro, "", NoDecl),
       Directive(25, "include", "", "lua.h", NoDecl),
       Directive(26, "include", "", "webkit2/webkit2.h", NoDecl),
       Directive(28, "declaration", "", "", download_class_setup_decl),
       Directive(29, "declaration", "", "", luaH_download_push_decl),
       Directive(31, "endif",   "", "", NoDecl) >>

\* A third entry point declared by the header.
HeaderExtraDecl ==
    << Directive(22, "ifndef",  GuardMacro, "", NoDecl),
       Directive(23, "define",  GuardMacro, "", NoDecl),
       Directive(25, "include", "", "lua.h", NoDecl),
       Directive(26, "include", "", "webkit2/webkit2.h", NoDecl),
       Directive(28, "declaration", "", "", download_class_setup_decl),
       Directive(29, "declaration", "", "", luaH_download_push_decl),
       Directive(30, "declaration", "", "",
                 [name |-> "luaH_download_cancel", form |-> "prototype",
                  ret |-> "gint", params |-> <<"lua_State*">>]),
       Directive(31, "endif",   "", "", NoDecl) >>

\* The header defining an object of its own (as clib/widget.h does with
\* `lua_class_t widget_class;`).
HeaderWithObject ==
    << Directive(22, "ifndef",  GuardMacro, "", NoDecl),
       Directive(23, "define",  GuardMacro, "", NoDecl),
       Directive(25, "include", "", "lua.h", NoDecl),
       Directive(26, "include", "", "webkit2/webkit2.h", NoDecl),
       Directive(27, "declaration", "", "",
                 [name |-> "download_class", form |-> "object",
                  ret |-> "lua_class_t", params |-> <<>>]),
       Directive(28, "declaration", "", "", download_class_setup_decl),
       Directive(29, "declaration", "", "", luaH_download_push_decl),
       Directive(31, "endif",   "", "", NoDecl) >>

\* download.h:22-31, one entry per line that is not blank or a comment.
Header ==
    << Directive(22, "ifndef",  GuardMacro, "", NoDecl),
       Directive(23, "define",  GuardMacro, "", NoDecl),
       Directive(25, "include", "", "lua.h", NoDecl),
       Directive(26, "include", "", "webkit2/webkit2.h", NoDecl),
       Directive(28, "declaration", "", "", download_class_setup_decl),
       Directive(29, "declaration", "", "", luaH_download_push_decl),
       Directive(31, "endif",   "", "", NoDecl) >>

\* download.h:25-26, the headers of the external libraries.
SysHeaders == {"lua.h", "webkit2/webkit2.h"}

\* ------------------------------------------------------------ the runtime

\* Runtime states (lua_State*) and native download handles (WebKitDownload*).
LuaStates == {"L1", "L2"}
Downloads == {"d1", "d2"}

\* What a call yields: <<>> from a function returning void, <<v>> otherwise.
NoValue == <<>>
NoCall == [fn |-> "", args |-> <<>>, ret |-> NoValue, depthBefore |-> 0]

VARIABLES
    macros,       \* the macros defined in the translation unit
    pc,           \* 0: in the translation unit; i: at Header[i]
    skipping,     \* inside the group of a failed #ifndef
    decls,        \* the declarations the header contributed, in order
    sysRequests,  \* how often each external header was included from here
    inclusions,   \* completed inclusions of the header
    registry,     \* runtime state -> the classes registered in it
    stack,        \* runtime state -> its evaluation stack
    lastCall      \* the latest call of an entry point and what it returned

ppvars == <<macros, pc, skipping, decls, sysRequests, inclusions>>
rtvars == <<registry, stack, lastCall>>
vars == <<macros, pc, skipping, decls, sysRequests, inclusions,
          registry, stack, lastCall>>

RTInit ==
    /\ registry = [L \in LuaStates |-> {}]
    /\ stack = [L \in LuaStates |-> <<>>]
    /\ lastCall = NoCall

PPInit ==
    /\ macros = {}
    /\ pc = 0
    /\ skipping = FALSE
    /\ decls = <<>>
    /\ sysRequests = [h \in SysHeaders |-> 0]
    /\ inclusions = 0

Init == PPInit /\ RTInit

\* ------------------------------------------------- reading the header

\* The line after Header[pc]; the end of the file returns to the includer.
Advance ==
    /\ pc' = IF pc = Len(Header) THEN 0 ELSE pc + 1
    /\ inclusions' = IF pc = Len(Header) THEN inclusions + 1 ELSE inclusions

AtLine(d) == pc \in 1..Len(Header) /\ Header[pc].dir = d

\* #include "clib/download.h" in the translation unit.
Include ==
    /\ pc = 0
    /\ inclusions < MaxIncludes
    /\ pc' = 1
    /\ UNCHANGED <<macros, skipping, decls, sysRequests, inclusions>>
    /\ UNCHANGED rtvars

\* The translation unit defines or undefines a macro of its own.
TUDefine(m) ==
    /\ pc = 0
    /\ m \notin macros
    /\ macros' = macros \cup {m}
    /\ UNCHANGED <<pc, skipping, decls, sysRequests, inclusions>>
    /\ UNCHANGED rtvars

TUUndef(m) ==
    /\ pc = 0
    /\ m \in macros
    /\ macros' = macros \ {m}
    /\ UNCHANGED <<pc, skipping, decls, sysRequests, inclusions>>
    /\ UNCHANGED rtvars

\* download.h:22   #ifndef LUAKIT_CLIB_DOWNLOAD_H
Ifndef ==
    /\ AtLine("ifndef")
    /\ ~skipping
    /\ skipping' = (Header[pc].macro \in macros)
    /\ Advance
    /\ UNCHANGED <<macros, decls, sysRequests>>
    /\ UNCHANGED rtvars

\* download.h:23   #define LUAKIT_CLIB_DOWNLOAD_H
Define ==
    /\ AtLine("define")
    /\ ~skipping
    /\ macros' = macros \cup {Header[pc].macro}
    /\ Advance
    /\ UNCHANGED <<skipping, decls, sysRequests>>
    /\ UNCHANGED rtvars

\* download.h:25-26   #include <lua.h>, #include <webkit2/webkit2.h>
IncludeSys ==
    /\ AtLine("include")
    /\ ~skipping
    /\ sysRequests' = [sysRequests EXCEPT ![Header[pc].file] = @ + 1]
    /\ Advance
    /\ UNCHANGED <<macros, skipping, decls>>
    /\ UNCHANGED rtvars

\* download.h:28-29   a declaration enters the translation unit.
Declare ==
    /\ AtLine("declaration")
    /\ ~skipping
    /\ decls' = Append(decls, Header[pc].decl)
    /\ Advance
    /\ UNCHANGED <<macros, skipping, sysRequests>>
    /\ UNCHANGED rtvars

\* A line of a group whose #ifndef failed is read and dropped.
SkipLine ==
    /\ pc \in 1..Len(Header)
    /\ skipping
    /\ Header[pc].dir # "endif"
    /\ Advance
    /\ UNCHANGED <<macros, skipping, decls, sysRequests>>
    /\ UNCHANGED rtvars

\* download.h:31   #endif
Endif ==
    /\ AtLine("endif")
    /\ skipping' = FALSE
    /\ Advance
    /\ UNCHANGED <<macros, decls, sysRequests>>
    /\ UNCHANGED rtvars

Next ==
    \/ Include
    \/ \E m \in OtherMacros : TUDefine(m)
    \/ \E m \in OtherMacros : TUUndef(m)
    \/ Ifndef
    \/ Define
    \/ IncludeSys
    \/ Declare
    \/ SkipLine
    \/ Endif

Spec == Init /\ [][Next]_vars

\* ------------------------------------------- calling the entry points

\* The values a parameter of C type t can take.
ValuesOf(t) ==
    IF t = "lua_State*" THEN LuaStates
    ELSE IF t = "WebKitDownload*" THEN Downloads
    ELSE {}

\* The argument lists a prototype with these parameters accepts.
ArgTuples(params) ==
    { a \in [1..Len(params) -> LuaStates \cup Downloads] :
        \A i \in 1..Len(params) : a[i] \in ValuesOf(params[i]) }

\* What the caller receives: nothing from a void function.
Returned(decl, v) == IF decl.ret = "void" THEN NoValue ELSE <<v>>

\* The scripting-visible object wrapping native handle d.
DownloadObject(d) == [class |-> "download", handle |-> d]

\* download.h:28   void download_class_setup(lua_State *L)
download_class_setup(L) ==
    /\ <<L>> \in ArgTuples(download_class_setup_decl.params)
    /\ registry' = [registry EXCEPT ![L] = @ \cup {"download"}]
    /\ lastCall' = [fn |-> "download_class_setup", args |-> <<L>>,
                    ret |-> Returned(download_class_setup_decl, 0),
                    depthBefore |-> Len(stack[L])]
    /\ UNCHANGED stack
    /\ UNCHANGED ppvars

\* download.h:29   gint luaH_download_push(lua_State *L, WebKitDownload *d)
luaH_download_push(L, d) ==
    /\ <<L, d>> \in ArgTuples(luaH_download_push_decl.params)
    /\ Len(stack[L]) < MaxStack
    /\ stack' = [stack EXCEPT ![L] = Append(@, DownloadObject(d))]
    /\ lastCall' = [fn |-> "luaH_download_push", args |-> <<L, d>>,
                    ret |-> Returned(luaH_download_push_decl, 1),
                    depthBefore |-> Len(stack[L])]
    /\ UNCHANGED registry
    /\ UNCHANGED ppvars

\* The script consumes the value on top of L's stack (lua_pop).
LuaPop(L) ==
    /\ Len(stack[L]) > 0
    /\ stack' = [stack EXCEPT ![L] = SubSeq(@, 1, Len(@) - 1)]
    /\ UNCHANGED <<registry, lastCall>>
    /\ UNCHANGED ppvars

NextRT ==
    \/ \E L \in LuaStates : download_class_setup(L)
    \/ \E L \in LuaStates, d \in Downloads : luaH_download_push(L, d)
    \/ \E L \in LuaStates : LuaPop(L)

SpecRT == Init /\ [][NextRT]_vars

\* ------------------------------------------------------------ properties

TopOf(s) == s[Len(s)]

DeclaredInterface ==
    { [name |-> "download_class_setup", form |-> "prototype",
       ret |-> "void", params |-> <<"lua_State*">>],
      [name |-> "luaH_download_push", form |-> "prototype",
       ret |-> "gint", params |-> <<"lua_State*", "WebKitDownload*">>] }

Contributed == { decls[i] : i \in 1..Len(decls) }

\* C3: the header declares exactly two entry points,
\* download_class_setup(runtime state) and
\* luaH_download_push(runtime state, native download handle) -> integer:
\* nothing else is ever contributed, and once the header has been read the
\* two are both there.
C3_ExactlyTwoEntryPoints ==
    /\ Contributed \subseteq DeclaredInterface
    /\ inclusions >= 1 => Contributed = DeclaredInterface

\* C3's case: the header has been read to its end and has declared both.
C3_Witness ==
    /\ inclusions = 1
    /\ pc = 0
    /\ Len(decls) = 2

\* C4: the header carries no state of its own: whatever it contributes to a
\* translation unit is a function prototype, never an object (a variable),
\* a type (a data structure) or a function body.
C4_OnlyPrototypes ==
    \A i \in 1..Len(decls) :
        decls[i].form = "prototype"

\* C4's case: the whole header was read with its group active.
C4_Witness ==
    /\ inclusions >= 1
    /\ decls # <<>>
    /\ \A h \in SysHeaders : sysRequests[h] >= 1

\* C5: inclusion is idempotent: once a first inclusion has completed (and
\* defined LUAKIT_CLIB_DOWNLOAD_H), no later step of any later inclusion
\* contributes a declaration or includes an external header again, so what
\* the header contributed after n >= 1 inclusions is what it contributed
\* after one.
C5_InclusionIdempotent ==
    [][inclusions >= 1 =>
          /\ decls' = decls
          /\ sysRequests' = sysRequests
          /\ GuardMacro \in macros']_vars

\* C5's case: a second inclusion has been read to its end.
C5_Witness ==
    /\ inclusions >= 2
    /\ pc = 0
    /\ GuardMacro \in macros
    /\ Len(decls) = 2

====
